---- MODULE Spec2Model ----
(***************************************************************************)
(* State-machine model of the per-connection ServerHandler of the MQTT v3  *)
(* broker (src/src/handle/v3_server_handle.rs) together with the packet    *)
(* dispatch of src/src/message/mod.rs and the acknowledgement conversions  *)
(* of src/src/message/v3.rs.                                               *)
(*                                                                         *)
(* One handler owns one ServerSession and one mpsc receiver.  Every call   *)
(* of ServerHandler::execute consumes one HandleEvent from the receiver.   *)
(* The session type, the process-wide registries SUBSCRIPT and             *)
(* MESSAGE_CONTAINER, the observer callback `f` handed to execute and the  *)
(* loop that drives execute are not part of the three source files; they   *)
(* are modelled after the specification (sections 4.2 - 4.5, 5).           *)
(***************************************************************************)
EXTENDS Integers, Sequences, FiniteSets, TLC

(***************************************************************************)
(* Bounds of the model.                                                    *)
(***************************************************************************)
\* number of events the transports may enqueue in one behaviour
MaxInputs == 4
\* capacity of a handler's channel (mpsc::channel(512) in the source)
ChannelCap == 3
\* number of fresh PUBLISH packets one client sends (message ids 1..MaxPub)
MaxPub == 2

Handlers == {1, 2}
\* client identifiers a CONNECT may carry; "" is the empty identifier, which
\* is also the client_id of a session that has not processed a CONNECT
ClientIds == {"a", "b"}
EmptyId == ""
AllIds == ClientIds \cup {EmptyId}
Topics == {"t", "bye"}
NoTopic == "-"
MsgIds == 1..MaxPub
NoSender == 0

VARIABLES
    session,            \* ServerHandler.session, per handler
    receiver,           \* ServerHandler.receiver: the queued HandleEvents
    status,             \* "running" | "exited" | "panicked" (the driving loop)
    ret,                \* the execute calls made, and of the last one: the event
                        \* consumed, whether it found the session established,
                        \* the value returned, the registries it changed
    SUBSCRIPT,          \* topic -> client id -> sender (handler) or NoSender
    MESSAGE_CONTAINER,  \* client id -> inflight table
    live,               \* registry view: client id -> handler of the live session
    willSent,           \* will broadcasts made: {<<handler, "Disconnect"|"ExitEvent">>}
    willCount,          \* number of will broadcasts made by each handler
    delivered,          \* per handler: the PUBLISH responses returned, <<from, body>>
    published,          \* per client transport: QoS of each fresh PUBLISH sent
    released,           \* per client transport: message ids whose PUBREL was sent
    budget              \* number of events the transports may still enqueue

vars == <<session, receiver, status, ret, SUBSCRIPT, MESSAGE_CONTAINER,
          live, willSent, willCount, delivered, published, released, budget>>

(***************************************************************************)
(* Packets and events.                                                     *)
(***************************************************************************)
\* a decoded control packet; fields a packet type does not carry keep the
\* defaults below
BasePacket ==
    [ptype |-> "NONE", protocol_name |-> "MQTT", protocol_level |-> 4,
     client_id |-> EmptyId, will_flag |-> FALSE, will_qos |-> 0,
     will_topic |-> NoTopic, will_message |-> FALSE, clean_session |-> FALSE,
     topic |-> NoTopic, qos |-> 0, message_id |-> 0, dup |-> FALSE,
     body |-> 0, code |-> 0, session_present |-> FALSE, has_bytes |-> TRUE,
     filters |-> <<>>, codes |-> <<>>]

InputEvent(data) == <<"InputEvent", data>>
BroadcastEvent(from_id, content) == <<"BroadcastEvent", from_id, content>>
ExitEvent(will) == <<"ExitEvent", will>>
OutputEvent(data) == <<"OutputEvent", data>>

NoEvent == <<"NoEvent">>

\* ReturnKind of one execute call
ReturnNone == <<"None">>
ReturnResponse(bytes) == <<"Response", bytes>>
ReturnExit == <<"Exit">>
ReturnPanic == <<"Panic">>

(***************************************************************************)
(* ServerSession (specification 4.2).                                      *)
(***************************************************************************)
ServerSessionNew ==
    [client_id |-> EmptyId, protocol_name |-> "", protocol_level |-> 0,
     will_flag |-> FALSE, will_qos |-> 0, will_topic |-> NoTopic,
     will_message |-> FALSE, clean_session |-> "None", established |-> FALSE]

\* init_protocol(name, level)
SessionInitProtocol(s, name, level) ==
    [s EXCEPT !.protocol_name = name, !.protocol_level = level]

\* init(client_id, will_flag, will_qos, will_retain, will_topic, will_message)
SessionInit(s, client_id, will_flag, will_qos, will_topic) ==
    [s EXCEPT !.client_id = client_id, !.will_flag = will_flag,
              !.will_qos = will_qos, !.will_topic = will_topic,
              !.will_message = TRUE, !.established = TRUE]

\* get_will_message(): the will as a TopicMessage::Content(client_id, PUBLISH)
GetWillMessage(s) ==
    [BasePacket EXCEPT !.ptype = "PUBLISH", !.topic = s.will_topic,
                       !.qos = s.will_qos, !.body = 0]

(***************************************************************************)
(* Inflight store MESSAGE_CONTAINER (specification 4.3).                   *)
(***************************************************************************)
\* MessageFrame::new(from_id, to_id, bytes, message_id); the payload bytes are
\* the encoded PUBLISH, kept here as the decoded content
MessageFrame(from_id, to_id, content) ==
    [present |-> TRUE, from |-> from_id, to |-> to_id, content |-> content]

NoFrame == [present |-> FALSE, from |-> EmptyId, to |-> EmptyId, content |-> BasePacket]

NoTable == [exists |-> FALSE, frames |-> [m \in MsgIds |-> NoFrame]]

\* init(client_id): ensure a table exists; idempotent
ContainerInit(C, client_id) ==
    [C EXCEPT ![client_id].exists = TRUE]

\* append(client_id, message_id, frame): insert, overwriting a duplicate
ContainerAppend(C, client_id, message_id, frame) ==
    IF message_id \in MsgIds
    THEN [C EXCEPT ![client_id].exists = TRUE,
                   ![client_id].frames[message_id] = frame]
    ELSE C

\* complete(client_id, message_id): remove the entry; a missing entry is no error
ContainerComplete(C, client_id, message_id) ==
    IF message_id \in MsgIds
    THEN [C EXCEPT ![client_id].frames[message_id] = NoFrame]
    ELSE C

\* remove(client_id): drop the entire table
ContainerRemove(C, client_id) ==
    [C EXCEPT ![client_id] = NoTable]

ContainerGet(C, client_id, message_id) ==
    IF message_id \in MsgIds THEN C[client_id].frames[message_id] ELSE NoFrame

TableEmpty(C, client_id) ==
    \A m \in MsgIds : ~C[client_id].frames[m].present

(***************************************************************************)
(* World: the shared state one execute call reads and writes.  `blocked`   *)
(* is set when a channel send finds the destination channel full: the      *)
(* awaiting send does not complete, so the call does not complete either.  *)
(***************************************************************************)
World(recv) ==
    [receiver |-> recv, SUBSCRIPT |-> SUBSCRIPT,
     MESSAGE_CONTAINER |-> MESSAGE_CONTAINER, live |-> live,
     willSent |-> willSent, willCount |-> willCount, blocked |-> FALSE]

\* ServerSession::send_event / mpsc::Sender::send on the channel of handler h.
\* A send on the channel of a handler that is gone fails and is ignored.
SendEvent(W, h, ev) ==
    IF status[h] # "running" THEN W
    ELSE IF Len(W.receiver[h]) >= ChannelCap THEN [W EXCEPT !.blocked = TRUE]
    ELSE [W EXCEPT !.receiver[h] = Append(@, ev)]

(***************************************************************************)
(* Subscription registry SUBSCRIPT (specification 4.4).                    *)
(***************************************************************************)
\* contain(topic)
SubscriptContain(S, topic) ==
    topic \in Topics /\ \E c \in AllIds : S[topic][c] # NoSender

\* is_subscript(topic, client_id)
SubscriptIsSubscript(S, topic, client_id) ==
    topic \in Topics /\ S[topic][client_id] # NoSender

\* subscript(topic, client_id, sender)
SubscriptSubscript(S, topic, client_id, sender) ==
    IF topic \in Topics THEN [S EXCEPT ![topic][client_id] = sender] ELSE S

\* unsubscript(topic, client_id)
SubscriptUnsubscript(S, topic, client_id) ==
    IF topic \in Topics THEN [S EXCEPT ![topic][client_id] = NoSender] ELSE S

\* exit(client_id): remove all subscriptions of the client
SubscriptExit(S, client_id) ==
    [t \in Topics |-> [c \in AllIds |-> IF c = client_id THEN NoSender ELSE S[t][c]]]

RECURSIVE BroadcastTo(_, _, _, _)
BroadcastTo(W, topic, ids, ev) ==
    IF ids = {} THEN W
    ELSE LET c == CHOOSE x \in ids : TRUE
             h == W.SUBSCRIPT[topic][c]
             W1 == IF status[h] = "running"
                   THEN SendEvent(W, h, ev)
                   \* ChannelClosed: drop the message, lazily unsubscribe
                   ELSE [W EXCEPT !.SUBSCRIPT = SubscriptUnsubscript(@, topic, c)]
         IN BroadcastTo(W1, topic, ids \ {c}, ev)

\* broadcast(topic, TopicMessage::Content(from_id, content)): one BroadcastEvent
\* on the channel of every subscriber of the topic, the sender's own included
SubscriptBroadcast(W, topic, from_id, content) ==
    IF topic \in Topics
    THEN BroadcastTo(W, topic, {c \in AllIds : W.SUBSCRIPT[topic][c] # NoSender},
                     BroadcastEvent(from_id, content))
    ELSE W

(***************************************************************************)
(* Codec: packet type dispatch (src/src/message/mod.rs) and the            *)
(* acknowledgement conversions (src/src/message/v3.rs).                    *)
(***************************************************************************)
TypeKinds == {"CONNECT", "CONNACK", "PUBLISH", "PUBACK", "PUBREC", "PUBREL",
              "PUBCOMP", "SUBSCRIBE", "SUBACK", "UNSUBSCRIBE", "UNSUBACK",
              "PINGREQ", "PINGRESP", "DISCONNECT", "AUTH"}

\* BaseMessage::from(Vec<u8>): get_type(..) then r#type2.unwrap(); a first byte
\* whose type nibble names no TypeKind makes the unwrap panic
BaseMessageFrom(data) ==
    [panic |-> data.ptype \notin TypeKinds, msg_type |-> data.ptype, bytes |-> data]

NoRequest == [kind |-> "None", v3 |-> "None", msg |-> BasePacket, msgs |-> <<>>]

RequestV3(v3, msg) == [NoRequest EXCEPT !.kind = "RequestV3", !.v3 = v3, !.msg = msg]

\* v3_unpacket::subscribe: one SubscribeMessage per (topic filter, qos) pair
UnpackSubscribe(data) ==
    [i \in 1..Len(data.filters) |->
        [data EXCEPT !.topic = data.filters[i][1], !.qos = data.filters[i][2]]]

\* MqttMessageKind::v3(base_msg)
ToV3Request(base) ==
    LET t == base.msg_type
        d == base.bytes
    IN CASE t = "CONNECT" -> RequestV3("Connect", d)
         [] t = "CONNACK" -> RequestV3("Connack", d)
         [] t = "PUBLISH" -> RequestV3("Publish", d)
         [] t = "PUBACK" -> RequestV3("Puback", d)
         [] t = "PUBREC" -> RequestV3("Pubrec", d)
         [] t = "PUBREL" -> RequestV3("Pubrel", d)
         [] t = "PUBCOMP" -> RequestV3("Pubcomp", d)
         [] t = "SUBSCRIBE" ->
                [NoRequest EXCEPT !.kind = "RequestsV3", !.v3 = "Subscribe",
                                  !.msgs = UnpackSubscribe(d)]
         [] t = "UNSUBSCRIBE" -> RequestV3("Unsubscribe", d)
         [] t = "UNSUBACK" -> RequestV3("Unsuback", d)
         [] t = "PINGREQ" -> RequestV3("Pingresp", [BasePacket EXCEPT !.ptype = "PINGRESP"])
         [] t = "DISCONNECT" -> RequestV3("Disconnect", [BasePacket EXCEPT !.ptype = "DISCONNECT"])
         [] OTHER -> NoRequest

\* v3_packet::not_payload(message_id, type): fixed header and packet identifier
NotPayload(message_id, type) ==
    [BasePacket EXCEPT !.ptype = type, !.message_id = message_id]

\* PubackMessage::new with the packet identifier left at zero
PubackNewNoId(message_id) == NotPayload(0, "PUBACK")

\* PubackMessage::new(message_id)
PubackNew(message_id) == NotPayload(message_id, "PUBACK")
\* PubrecMessage::new(message_id)
PubrecNew(message_id) == NotPayload(message_id, "PUBREC")
\* PubrelMessage::new(message_id)
PubrelNew(message_id) == NotPayload(message_id, "PUBREL")
\* PubcompMessage::new(message_id)
PubcompNew(message_id) == NotPayload(message_id, "PUBCOMP")
\* UnsubackMessage::new(message_id)
UnsubackNew(message_id) == NotPayload(message_id, "UNSUBACK")

\* From<PubackMessage> for PubrecMessage
PubrecFromPuback(puback) == PubrecNew(puback.message_id)
\* From<PubrecMessage> for PubrelMessage
PubrelFromPubrec(pubrec) == PubrelNew(pubrec.message_id)
\* From<PubrelMessage> for PubcompMessage
PubcompFromPubrel(pubrel) == PubcompNew(pubrel.message_id)

\* a SUBACK return code that grants QoS 0 whatever was requested
SubackCodeZero(qos) == 0

\* the return code of From<SubscribeMessage> for SubackMessage
SubackCode(qos) == IF qos < 3 THEN qos ELSE 128

\* ConnackMessage::new(session_present, return_code)
ConnackNew(session_present, return_code) ==
    [BasePacket EXCEPT !.ptype = "CONNACK", !.session_present = session_present,
                       !.code = return_code]

\* MqttMessageV3::Publish(content).to_vec(): the PUBLISH packet of the content;
\* the packet identifier is on the wire only when qos > 0
PublishToVec(content) ==
    [BasePacket EXCEPT !.ptype = "PUBLISH", !.topic = content.topic,
                       !.qos = content.qos, !.dup = content.dup,
                       !.body = content.body,
                       !.protocol_level = content.protocol_level,
                       !.message_id = IF content.qos > 0 THEN content.message_id ELSE 0]

(***************************************************************************)
(* ServerHandler (src/src/handle/v3_server_handle.rs).                     *)
(***************************************************************************)
IsConnect(req) == req.kind = "RequestV3" /\ req.v3 = "Connect"

\* ServerHandler::init_session.  The two unwrap() calls panic when the CONNECT
\* payload has no will topic or no will message.  clean_session is not handed
\* to the session.
InitSession(W, s, req) ==
    IF IsConnect(req)
    THEN LET m == req.msg
             s1 == SessionInitProtocol(s, m.protocol_name, m.protocol_level)
         IN IF m.will_topic = NoTopic \/ ~m.will_message
            THEN [panic |-> TRUE, session |-> s1, world |-> W]
            ELSE [panic |-> FALSE,
                  session |-> SessionInit(s1, m.client_id, m.will_flag,
                                          m.will_qos, m.will_topic),
                  world |-> [W EXCEPT !.MESSAGE_CONTAINER =
                                          ContainerInit(@, m.client_id)]]
    ELSE [panic |-> FALSE, session |-> s, world |-> W]

\* the will broadcast of the Disconnect arm and of the ExitEvent arm:
\* if is_will_flag() { if let Some(m) = get_will_message() { broadcast } }
BroadcastWill(W, h, s, arm) ==
    IF s.will_flag /\ s.will_message
    THEN [SubscriptBroadcast(W, s.will_topic, s.client_id, GetWillMessage(s))
            EXCEPT !.willSent = @ \cup {<<h, arm>>},
                   !.willCount[h] = @ + 1]
    ELSE W

\* the Disconnect arm of handle_v3_request
HandleDisconnect(W, h, s) ==
    LET W1 == BroadcastWill(W, h, s, "Disconnect")
        W2 == [W1 EXCEPT !.SUBSCRIPT = SubscriptExit(@, s.client_id)]
    IN IF s.clean_session = "Enable"
       THEN [W2 EXCEPT !.MESSAGE_CONTAINER = ContainerRemove(@, s.client_id)]
       ELSE W2

\* an Unsubscribe arm that drops every subscription of the client
HandleUnsubscribeAll(W, s, msg) ==
    [W EXCEPT !.SUBSCRIPT = SubscriptExit(@, s.client_id)]

\* the Unsubscribe arm of handle_v3_request
HandleUnsubscribe(W, s, msg) ==
    IF SubscriptContain(W.SUBSCRIPT, msg.topic)
       /\ SubscriptIsSubscript(W.SUBSCRIPT, msg.topic, s.client_id)
    THEN [W EXCEPT !.SUBSCRIPT = SubscriptUnsubscript(@, msg.topic, s.client_id)]
    ELSE W

\* the Pubrel arm of handle_v3_request
HandlePubrel(W, s, msg) ==
    [W EXCEPT !.MESSAGE_CONTAINER = ContainerComplete(@, s.client_id, msg.message_id)]

\* ServerHandler::handle_v3_request: the effects on the registries
HandleV3Request(W, h, s, req) ==
    IF req.kind = "RequestV3"
    THEN CASE req.v3 = "Unsubscribe" -> HandleUnsubscribe(W, s, req.msg)
           [] req.v3 = "Pubrel" -> HandlePubrel(W, s, req.msg)
           [] req.v3 = "Disconnect" -> HandleDisconnect(W, h, s)
           [] OTHER -> W
    ELSE W

\* ServerHandler::handle_v3_request: msg.protocol_level = session.protocol_level
StampProtocolLevel(s, req) ==
    IF req.kind = "RequestV3"
       /\ req.v3 \in {"Unsubscribe", "Pubrel", "Disconnect", "Connack", "Publish",
                      "Puback", "Pubrec", "Pubcomp", "Subscribe", "Suback",
                      "Unsuback"}
    THEN [req EXCEPT !.msg.protocol_level = s.protocol_level]
    ELSE req

(***************************************************************************)
(* The observer callback `f(session, request)` that execute awaits after   *)
(* handle_v3_request.  It has a clone of the session (and so its sender)   *)
(* and the two registries; it answers the client with OutputEvents on the  *)
(* session's own channel and ends the session with an ExitEvent(false).    *)
(* Its behaviour is the packet dispatch of specification 4.5, less what    *)
(* init_session and handle_v3_request have already done.                   *)
(***************************************************************************)
Respond(W, h, packet) == SendEvent(W, h, OutputEvent(packet))

Terminate(W, h) == SendEvent(W, h, ExitEvent(FALSE))

ValidProtocol(m) ==
    m.protocol_name \in {"MQTT", "MQIsdp"} /\ m.protocol_level \in {3, 4}

\* a CONNECT that records the new session without evicting the older one
TakeOverNoEvict(W, h, client_id) ==
    [W EXCEPT !.live[client_id] = h]

\* take-over: the registry evicts the older session of the client id
TakeOver(W, h, client_id) ==
    LET old == W.live[client_id]
        W1 == IF old # NoSender /\ old # h
              THEN SendEvent(W, old, ExitEvent(FALSE))
              ELSE W
    IN [W1 EXCEPT !.live[client_id] = h]

OnConnect(W, h, s, m) ==
    IF ~ValidProtocol(m)
    THEN Terminate(Respond(W, h, ConnackNew(FALSE, 1)), h)
    ELSE IF m.client_id = EmptyId /\ ~m.clean_session
    THEN Terminate(Respond(W, h, ConnackNew(FALSE, 2)), h)
    ELSE Respond(TakeOver(W, h, m.client_id), h,
                 ConnackNew(~m.clean_session
                              /\ ~TableEmpty(W.MESSAGE_CONTAINER, m.client_id), 0))

\* a callback that broadcasts a QoS 2 PUBLISH as soon as it is received
OnPublishEager(W, h, s, m) ==
    IF m.qos = 0
    THEN SubscriptBroadcast(W, m.topic, s.client_id, m)
    ELSE Respond(SubscriptBroadcast(W, m.topic, s.client_id, m), h,
                 IF m.qos = 1 THEN PubackNew(m.message_id) ELSE PubrecNew(m.message_id))

OnPublish(W, h, s, m) ==
    CASE m.qos = 0 -> SubscriptBroadcast(W, m.topic, s.client_id, m)
      [] m.qos = 1 -> Respond(SubscriptBroadcast(W, m.topic, s.client_id, m), h,
                              PubackNew(m.message_id))
      [] m.qos = 2 ->
            Respond([W EXCEPT !.MESSAGE_CONTAINER =
                        ContainerAppend(@, s.client_id, m.message_id,
                                        MessageFrame(s.client_id, EmptyId, m))],
                    h, PubrecNew(m.message_id))
      [] OTHER -> W

\* `completed` is the entry the Pubrel arm of handle_v3_request has removed
OnPubrel(W, h, s, m, completed) ==
    LET W1 == IF completed.present /\ completed.from = s.client_id
              THEN SubscriptBroadcast(W, completed.content.topic, s.client_id,
                                      completed.content)
              ELSE W
    IN Respond(W1, h, PubcompFromPubrel(m))

\* a callback that leaves the inflight store alone on PUBCOMP
OnPubcompKeep(W, h, s, m) == W

\* PUBCOMP: the QoS 2 delivery to this client is finished; clear the entry
OnPubcomp(W, h, s, m) ==
    [W EXCEPT !.MESSAGE_CONTAINER = ContainerComplete(@, s.client_id, m.message_id)]

RECURSIVE SubscribeAll(_, _, _, _)
SubscribeAll(S, h, client_id, msgs) ==
    IF msgs = <<>> THEN S
    ELSE SubscribeAll(SubscriptSubscript(S, Head(msgs).topic, client_id, h),
                      h, client_id, Tail(msgs))

OnSubscribe(W, h, s, msgs) ==
    IF msgs = <<>> THEN W
    ELSE Respond([W EXCEPT !.SUBSCRIPT = SubscribeAll(@, h, s.client_id, msgs)], h,
                 [BasePacket EXCEPT !.ptype = "SUBACK",
                                    !.message_id = msgs[1].message_id,
                                    !.codes = [i \in 1..Len(msgs) |->
                                                  SubackCode(msgs[i].qos)]])

CallbackF(W, h, s, req, completed) ==
    IF req.kind = "None" THEN Terminate(W, h)
    ELSE IF IsConnect(req) THEN OnConnect(W, h, s, req.msg)
    ELSE IF ~s.established THEN Terminate(W, h)
    ELSE IF req.kind = "RequestsV3" THEN OnSubscribe(W, h, s, req.msgs)
    ELSE CASE req.v3 = "Publish" -> OnPublish(W, h, s, req.msg)
           [] req.v3 = "Pubrec" -> Respond(W, h, PubrelFromPubrec(req.msg))
           [] req.v3 = "Pubrel" -> OnPubrel(W, h, s, req.msg, completed)
           [] req.v3 = "Pubcomp" -> OnPubcomp(W, h, s, req.msg)
           [] req.v3 = "Unsubscribe" -> Respond(W, h, UnsubackNew(req.msg.message_id))
           [] req.v3 = "Pingresp" -> Respond(W, h, req.msg)
           [] req.v3 = "Disconnect" -> Terminate(W, h)
           [] OTHER -> W

(***************************************************************************)
(* ServerHandler::execute: one event of the receiver per call.             *)
(***************************************************************************)
Outcome(W, s, value, out) ==
    [world |-> W, session |-> s, value |-> value, delivered |-> out]

\* the InputEvent arm
ExecuteInput(W, h, data) ==
    LET s == session[h]
        base == BaseMessageFrom(data)
    IN IF base.panic THEN Outcome(W, s, ReturnPanic, <<>>)
       ELSE LET v3_request == ToV3Request(base)
                I == InitSession(W, s, v3_request)
            IN IF I.panic THEN Outcome(W, I.session, ReturnPanic, <<>>)
               ELSE LET s1 == I.session
                        completed ==
                            IF v3_request.kind = "RequestV3" /\ v3_request.v3 = "Pubrel"
                            THEN ContainerGet(I.world.MESSAGE_CONTAINER, s1.client_id,
                                              v3_request.msg.message_id)
                            ELSE NoFrame
                        W1 == HandleV3Request(I.world, h, s1, v3_request)
                        W2 == CallbackF(W1, h, s1, StampProtocolLevel(s1, v3_request),
                                        completed)
                    IN Outcome(W2, s1, ReturnNone, <<>>)

\* the BroadcastEvent arm without the comparison of client_id and from_id
ExecuteBroadcastEcho(W, h, from_id, content) ==
    Outcome(W, session[h], ReturnResponse(PublishToVec(content)),
            <<<<from_id, content.body>>>>)

\* the BroadcastEvent arm
ExecuteBroadcast(W, h, from_id, content) ==
    LET s == session[h]
        client_id == s.client_id
    IN IF content.qos = 2 /\ ~content.has_bytes
       THEN Outcome(W, s, ReturnPanic, <<>>)
       ELSE LET W1 == IF content.qos = 2
                      THEN [W EXCEPT !.MESSAGE_CONTAINER =
                               ContainerAppend(@, client_id, content.message_id,
                                   MessageFrame(from_id, client_id, content))]
                      ELSE W
            IN IF client_id # from_id
               THEN Outcome(W1, s, ReturnResponse(PublishToVec(content)),
                            <<<<from_id, content.body>>>>)
               ELSE Outcome(W1, s, ReturnNone, <<>>)

\* an ExitEvent arm that broadcasts the will whatever `will` is
ExecuteExitAlwaysWill(W, h, will) ==
    LET s == session[h]
        W1 == BroadcastWill(W, h, s, "ExitEvent")
        W2 == [W1 EXCEPT !.SUBSCRIPT = SubscriptExit(@, s.client_id)]
    IN Outcome(W2, s, ReturnExit, <<>>)

\* the ExitEvent arm
ExecuteExit(W, h, will) ==
    LET s == session[h]
        W1 == IF will THEN BroadcastWill(W, h, s, "ExitEvent") ELSE W
        W2 == [W1 EXCEPT !.SUBSCRIPT = SubscriptExit(@, s.client_id)]
    IN Outcome(W2, s, ReturnExit, <<>>)

\* the OutputEvent arm
ExecuteOutput(W, h, data) ==
    Outcome(W, session[h], ReturnResponse(data), <<>>)

\* a receiver that hands out the newest queued event instead of the oldest
RecvNewest(q) == q[Len(q)]

\* self.receiver.recv(): the oldest queued event
Recv(q) == Head(q)

Rest(q) == Tail(q)

\* a driving loop that goes on calling execute after a call has returned Exit
RunningAfterExit(h) == status[h] # "panicked"

\* the driving loop calls execute again until a call returns Exit, which
\* closes the connection
Running(h) == status[h] = "running"

Execute(h) ==
    /\ Running(h)
    /\ receiver[h] # <<>>
    /\ LET ev == Recv(receiver[h])
           W == World([receiver EXCEPT ![h] = Rest(receiver[h])])
       IN \E R \in {CASE ev[1] = "InputEvent" -> ExecuteInput(W, h, ev[2])
                      [] ev[1] = "BroadcastEvent" -> ExecuteBroadcast(W, h, ev[2], ev[3])
                      [] ev[1] = "ExitEvent" -> ExecuteExit(W, h, ev[2])
                      [] OTHER -> ExecuteOutput(W, h, ev[2])} :
          /\ ~R.world.blocked
          /\ receiver' = R.world.receiver
          /\ SUBSCRIPT' = R.world.SUBSCRIPT
          /\ MESSAGE_CONTAINER' = R.world.MESSAGE_CONTAINER
          /\ live' = R.world.live
          /\ willSent' = R.world.willSent
          /\ willCount' = R.world.willCount
          /\ session' = [session EXCEPT ![h] = R.session]
          /\ ret' = [ret EXCEPT ![h] =
                        [calls |-> ret[h].calls + 1, event |-> ev, value |-> R.value,
                         established |-> session[h].established,
                         subscript |-> R.world.SUBSCRIPT # SUBSCRIPT,
                         inflight |-> R.world.MESSAGE_CONTAINER # MESSAGE_CONTAINER]]
          /\ status' = [status EXCEPT ![h] =
                           CASE R.value = ReturnExit -> "exited"
                             [] R.value = ReturnPanic -> "panicked"
                             [] OTHER -> "running"]
          /\ delivered' = [delivered EXCEPT ![h] = @ \o R.delivered]
    /\ UNCHANGED <<published, released, budget>>

(***************************************************************************)
(* The transports: what the surrounding code puts on a handler's channel   *)
(* with ServerHandler::send_message.  A client numbers its fresh PUBLISH   *)
(* packets 1, 2, ..; the number is the payload and, for QoS > 0, the       *)
(* packet identifier.                                                      *)
(***************************************************************************)
TransportOpen(h) ==
    /\ status[h] = "running"
    /\ \A i \in 1..Len(receiver[h]) : receiver[h][i] # ExitEvent(TRUE)

\* ServerHandler::send_message(msg) by the transport of handler h
SendMessage(h, ev) ==
    /\ budget > 0
    /\ status[h] = "running"
    /\ Len(receiver[h]) < ChannelCap
    /\ receiver' = [receiver EXCEPT ![h] = Append(@, ev)]
    /\ budget' = budget - 1
    /\ UNCHANGED <<session, status, ret, SUBSCRIPT, MESSAGE_CONTAINER, live,
                   willSent, willCount, delivered>>

ConnectPacket(client_id, will_flag, will_qos, clean_session) ==
    [BasePacket EXCEPT !.ptype = "CONNECT", !.client_id = client_id,
                       !.will_flag = will_flag, !.will_qos = will_qos,
                       !.will_topic = IF will_flag THEN "bye" ELSE NoTopic,
                       !.will_message = will_flag,
                       !.clean_session = clean_session]

PublishPacket(topic, qos, n, dup) ==
    [BasePacket EXCEPT !.ptype = "PUBLISH", !.topic = topic, !.qos = qos,
                       !.message_id = IF qos > 0 THEN n ELSE 0,
                       !.body = n, !.dup = dup]

ClientConnect(h, client_id, will_flag, will_qos, clean_session) ==
    /\ TransportOpen(h)
    /\ SendMessage(h, InputEvent(ConnectPacket(client_id, will_flag, will_qos,
                                               clean_session)))
    /\ UNCHANGED <<published, released>>

ClientSubscribe(h, filters) ==
    /\ TransportOpen(h)
    /\ SendMessage(h, InputEvent([BasePacket EXCEPT !.ptype = "SUBSCRIBE",
                                     !.message_id = 1, !.filters = filters]))
    /\ UNCHANGED <<published, released>>

ClientUnsubscribe(h, topic) ==
    /\ TransportOpen(h)
    /\ SendMessage(h, InputEvent([BasePacket EXCEPT !.ptype = "UNSUBSCRIBE",
                                     !.message_id = 1, !.topic = topic]))
    /\ UNCHANGED <<published, released>>

\* a fresh PUBLISH
ClientPublish(h, topic, qos) ==
    /\ TransportOpen(h)
    /\ Len(published[h]) < MaxPub
    /\ SendMessage(h, InputEvent(PublishPacket(topic, qos, Len(published[h]) + 1, FALSE)))
    /\ published' = [published EXCEPT ![h] = Append(@, <<topic, qos>>)]
    /\ UNCHANGED released

\* the retransmission, with DUP=1, of a QoS 2 PUBLISH whose PUBREL is not sent yet
ClientRetransmit(h, n) ==
    /\ TransportOpen(h)
    /\ n \in 1..Len(published[h])
    /\ published[h][n][2] = 2
    /\ n \notin released[h]
    /\ SendMessage(h, InputEvent(PublishPacket(published[h][n][1], 2, n, TRUE)))
    /\ UNCHANGED <<published, released>>

\* PUBREL of a QoS 2 PUBLISH the client has sent (sent again if sent before)
ClientPubrel(h, n) ==
    /\ TransportOpen(h)
    /\ n \in 1..Len(published[h])
    /\ published[h][n][2] = 2
    /\ SendMessage(h, InputEvent(NotPayload(n, "PUBREL")))
    /\ released' = [released EXCEPT ![h] = @ \cup {n}]
    /\ UNCHANGED published

\* any other packet that carries at most a packet identifier
ClientPacket(h, type, message_id) ==
    /\ TransportOpen(h)
    /\ SendMessage(h, InputEvent(NotPayload(message_id, type)))
    /\ UNCHANGED <<published, released>>

ClientDisconnect(h) == ClientPacket(h, "DISCONNECT", 0)

\* read error or keep-alive expiry on the transport: ExitEvent(will = true)
TransportClose(h) ==
    /\ SendMessage(h, ExitEvent(TRUE))
    /\ UNCHANGED <<published, released>>

\* the client of handler h has sent its CONNECT
Connected(h) ==
    \/ session[h].established
    \/ \E i \in 1..Len(receiver[h]) :
          receiver[h][i][1] = "InputEvent" /\ receiver[h][i][2].ptype = "CONNECT"

(***************************************************************************)
(* Initial state: every handler freshly constructed (ServerHandler::new).  *)
(***************************************************************************)
InitWith(b) ==
    /\ session = [h \in Handlers |-> ServerSessionNew]
    /\ receiver = [h \in Handlers |-> <<>>]
    /\ status = [h \in Handlers |-> "running"]
    /\ ret = [h \in Handlers |->
                 [calls |-> 0, event |-> NoEvent, value |-> ReturnNone,
                  established |-> FALSE,
                  subscript |-> FALSE, inflight |-> FALSE]]
    /\ SUBSCRIPT = [t \in Topics |-> [c \in AllIds |-> NoSender]]
    /\ MESSAGE_CONTAINER = [c \in AllIds |-> NoTable]
    /\ live = [c \in AllIds |-> NoSender]
    /\ willSent = {}
    /\ willCount = [h \in Handlers |-> 0]
    /\ delivered = [h \in Handlers |-> <<>>]
    /\ published = [h \in Handlers |-> <<>>]
    /\ released = [h \in Handlers |-> {}]
    /\ budget = b

Init == InitWith(MaxInputs)

Run == \E h \in Handlers : Execute(h)

(***************************************************************************)
(* Spec: clients that connect with a will, subscribe to the will topic,    *)
(* disconnect, and whose transports fail.                                  *)
(***************************************************************************)
Next ==
    \/ Run
    \/ \E h \in Handlers, c \in ClientIds, cs \in BOOLEAN :
          ClientConnect(h, c, TRUE, 0, cs)
    \/ \E h \in Handlers : ClientSubscribe(h, <<<<"bye", 0>>>>)
    \/ \E h \in Handlers : ClientDisconnect(h)
    \/ \E h \in Handlers : TransportClose(h)

Spec == Init /\ [][Next]_vars

(***************************************************************************)
(* Claims about the will (checked under Spec).                             *)
(***************************************************************************)
\* C2: on a graceful DISCONNECT the broker does not send the will: no will
\* broadcast is made while an InputEvent carrying DISCONNECT is processed; the
\* will is broadcast only while ExitEvent(will = true) is processed.
C2_NoWillOnDisconnect ==
    \A e \in willSent : e[2] = "ExitEvent"

\* a handler has processed ExitEvent(true) for a session with will_flag set
AbnormalExit(h) ==
    /\ ret[h].event[1] = "ExitEvent"
    /\ ret[h].event[2]
    /\ session[h].will_flag

\* C3: after an abnormal disconnect of a session that connected with
\* will_flag = true the will has been broadcast exactly once over the whole
\* life of the handler, whatever events it received before.
C3_WillExactlyOnce ==
    \A h \in Handlers : AbnormalExit(h) => willCount[h] = 1

(***************************************************************************)
(* SpecPubSub: two clients, "a" on handler 1 and "b" on handler 2, that    *)
(* connect, subscribe to topic "t" and publish on it with QoS 0, 1 and 2.  *)
(***************************************************************************)
\* number of events the transports may enqueue under SpecPubSub
MaxInputsPubSub == 5

ClientOf(h) == IF h = 1 THEN "a" ELSE "b"

InitPubSub == InitWith(MaxInputsPubSub)

NextPubSub ==
    \/ Run
    \/ \E h \in Handlers : ~Connected(h) /\ ClientConnect(h, ClientOf(h), TRUE, 0, TRUE)
    \/ \E h \in Handlers : Connected(h) /\ ClientSubscribe(h, <<<<"t", 0>>>>)
    \/ \E h \in Handlers, q \in 0..2 : Connected(h) /\ ClientPublish(h, "t", q)
    \/ \E h \in Handlers, n \in MsgIds : ClientPubrel(h, n)

SpecPubSub == InitPubSub /\ [][NextPubSub]_vars

(***************************************************************************)
(* Claims about PUBLISH (checked under SpecPubSub).                        *)
(***************************************************************************)
\* C1: a PUBLISH is never delivered to its own originator: when the last event
\* a handler processed is a BroadcastEvent whose from_id is the client_id of
\* its session, the call returned no Response, whatever the QoS.
C1_NoSelfEcho ==
    \A h \in Handlers :
        (ret[h].event[1] = "BroadcastEvent" /\ ret[h].event[2] = session[h].client_id)
            => ret[h].value[1] # "Response"

\* a handler has dropped the echo of its own QoS 2 PUBLISH
C1_Witness ==
    \E h \in Handlers :
        /\ ret[h].event[1] = "BroadcastEvent"
        /\ ret[h].event[2] = session[h].client_id
        /\ ret[h].event[3].qos = 2
        /\ ret[h].value = ReturnNone

\* the number of queued OutputEvents that carry a packet of the type and
\* packet identifier given
RECURSIVE CountAcks(_, _, _)
CountAcks(q, type, id) ==
    IF q = <<>> THEN 0
    ELSE (IF Head(q)[1] = "OutputEvent" /\ Head(q)[2].ptype = type
             /\ Head(q)[2].message_id = id THEN 1 ELSE 0)
         + CountAcks(Tail(q), type, id)

\* the number of occurrences of event ev in queue q
RECURSIVE CountIn(_, _)
CountIn(q, ev) ==
    IF q = <<>> THEN 0
    ELSE (IF Head(q) = ev THEN 1 ELSE 0) + CountIn(Tail(q), ev)

\* handler h has just processed a QoS 1 PUBLISH in an established session
ProcessedQos1(h) ==
    /\ ret'[h].calls # ret[h].calls
    /\ ret'[h].event[1] = "InputEvent"
    /\ ret'[h].event[2].ptype = "PUBLISH"
    /\ ret'[h].event[2].qos = 1
    /\ session[h].established

\* the BroadcastEvents one broadcast on `topic` puts on the channel of g
Fanout(topic, g) ==
    Cardinality({c \in AllIds : SUBSCRIPT[topic][c] = g})

\* C4: every QoS 1 PUBLISH processed in an established session is broadcast to
\* the subscribers of its topic (one BroadcastEvent per subscription, from the
\* publisher's client_id, with the content received) and answered with exactly
\* one PUBACK that carries the message_id of the PUBLISH.
C4_Qos1Puback ==
    [][\A h \in Handlers : ProcessedQos1(h) =>
          LET m == ret'[h].event[2]
              b == BroadcastEvent(session[h].client_id,
                                  [m EXCEPT !.protocol_level = session[h].protocol_level])
              old == [receiver EXCEPT ![h] = Tail(@)]
          IN /\ \A g \in Handlers :
                   CountIn(receiver'[g], b) = CountIn(old[g], b) + Fanout(m.topic, g)
             /\ \A i \in 0..MaxPub :
                   CountAcks(receiver'[h], "PUBACK", i)
                     = CountAcks(old[h], "PUBACK", i)
                         + (IF i = m.message_id THEN 1 ELSE 0)
             /\ Len(receiver'[h]) = Len(old[h]) + Fanout(m.topic, h) + 1
      ]_vars

\* a subscriber has been handed a QoS 1 PUBLISH of another client while the
\* PUBACK for it is queued for the publisher
C4_Witness ==
    \E h \in Handlers, g \in Handlers, i \in MsgIds :
        /\ g # h
        /\ ret[h].event[1] = "InputEvent"
        /\ ret[h].event[2].ptype = "PUBLISH"
        /\ ret[h].event[2].qos = 1
        /\ ret[h].event[2].message_id = i
        /\ CountAcks(receiver[h], "PUBACK", i) = 1
        /\ \E k \in 1..Len(receiver[g]) :
              /\ receiver[g][k][1] = "BroadcastEvent"
              /\ receiver[g][k][2] = session[h].client_id
              /\ receiver[g][k][3].message_id = i

(***************************************************************************)
(* SpecQos2: client "a" on handler 1 publishes one QoS 2 message on topic  *)
(* "t", may retransmit it with DUP=1 before its PUBREL and may send the    *)
(* PUBREL more than once; "a" and client "b" on handler 2 subscribe to "t".*)
(***************************************************************************)
\* number of events the transports may enqueue under SpecQos2
MaxInputsQos2 == 7

InitQos2 == InitWith(MaxInputsQos2)

NextQos2 ==
    \/ Run
    \/ \E h \in Handlers : ~Connected(h) /\ ClientConnect(h, ClientOf(h), TRUE, 0, TRUE)
    \/ \E h \in Handlers : Connected(h) /\ ClientSubscribe(h, <<<<"t", 0>>>>)
    \/ Connected(1) /\ published[1] = <<>> /\ ClientPublish(1, "t", 2)
    \/ ClientRetransmit(1, 1)
    \/ ClientPubrel(1, 1)

SpecQos2 == InitQos2 /\ [][NextQos2]_vars

MaxInputsClean == 5

InitClean == InitWith(MaxInputsClean)

NextClean ==
    \/ Run
    \/ \E h \in Handlers : ~Connected(h) /\ ClientConnect(h, ClientOf(h), TRUE, 0, TRUE)
    \/ \E h \in Handlers : Connected(h) /\ ClientSubscribe(h, <<<<"t", 0>>>>)
    \/ \E h \in Handlers : Connected(h) /\ ClientPublish(h, "t", 2)
    \/ \E h \in Handlers : Connected(h) /\ ClientDisconnect(h)

SpecClean == InitClean /\ [][NextClean]_vars

\* the last execute call of handler h processed a DISCONNECT in an
\* established session
ProcessedDisconnect(h) ==
    /\ ret[h].calls > 0
    /\ ret[h].established
    /\ ret[h].event[1] = "InputEvent"
    /\ ret[h].event[2].ptype = "DISCONNECT"

\* C6: once the handler of a client that connected with clean_session = true
\* has processed the client's DISCONNECT, the inflight table of that
\* client_id holds no frame, whatever QoS 2 entries it held before.
C6_CleanDisconnectEmptiesInflight ==
    \A h \in Handlers :
        ProcessedDisconnect(h) => TableEmpty(MESSAGE_CONTAINER, session[h].client_id)

(***************************************************************************)
(* SpecOrder: client "a" on handler 1 publishes on "t" at QoS 0, 1 or 2    *)
(* and releases its QoS 2 messages; client "b" on handler 2 subscribes.    *)
(***************************************************************************)
\* number of events the transports may enqueue under SpecOrder
MaxInputsOrder == 6

InitOrder == InitWith(MaxInputsOrder)

NextOrder ==
    \/ Run
    \/ \E h \in Handlers : ~Connected(h) /\ ClientConnect(h, ClientOf(h), TRUE, 0, TRUE)
    \/ Connected(2) /\ ClientSubscribe(2, <<<<"t", 0>>>>)
    \/ \E q \in 0..2 : Connected(1) /\ ClientPublish(1, "t", q)
    \/ \E n \in MsgIds : ClientPubrel(1, n)

SpecOrder == InitOrder /\ [][NextOrder]_vars

\* the QoS at which the client of handler h sent its n-th message
SentQos(h, n) == published[h][n][2]

MaxInputsFirst == 4

InitFirst == InitWith(MaxInputsFirst)

NextFirst ==
    \/ Run
    \/ ~Connected(1) /\ ClientConnect(1, EmptyId, TRUE, 0, TRUE)
    \/ Connected(1) /\ ClientSubscribe(1, <<<<"t", 0>>>>)
    \/ Connected(1) /\ ClientPublish(1, "t", 2)
    \/ \E h \in Handlers, type \in {"DISCONNECT", "PUBREL", "PINGREQ"} :
          ~Connected(h) /\ ClientPacket(h, type, 1)
    \/ \E h \in Handlers : ~Connected(h) /\ ClientUnsubscribe(h, "t")

SpecFirst == InitFirst /\ [][NextFirst]_vars

\* the last execute call of handler h processed a packet other than CONNECT
\* while its session was Uninitialized
ProcessedNonConnectFirst(h) ==
    /\ ret[h].calls > 0
    /\ ~ret[h].established
    /\ ret[h].event[1] = "InputEvent"
    /\ ret[h].event[2].ptype # "CONNECT"

\* C8: a packet other than CONNECT that arrives while the session is
\* Uninitialized produces no response (so no CONNACK) and has no effect on
\* the subscription registry or the inflight store.
C8_FirstPacketMustBeConnect ==
    \A h \in Handlers :
        ProcessedNonConnectFirst(h) =>
            /\ ret[h].value[1] # "Response"
            /\ ~ret[h].subscript
            /\ ~ret[h].inflight

(***************************************************************************)
(* SpecTakeOver: each transport sends one CONNECT with client_id "a" or    *)
(* "b", so that two transports can present the same client_id, and then    *)
(* subscribes to "t".  Client "a" connects with clean_session = false,     *)
(* client "b" with clean_session = true.                                   *)
(***************************************************************************)
\* number of events the transports may enqueue under SpecTakeOver
MaxInputsTakeOver == 4

CleanOf(client_id) == client_id = "b"

InitTakeOver == InitWith(MaxInputsTakeOver)

NextTakeOver ==
    \/ Run
    \/ \E h \in Handlers, c \in ClientIds :
          ~Connected(h) /\ ClientConnect(h, c, TRUE, 0, CleanOf(c))
    \/ \E h \in Handlers : Connected(h) /\ ClientSubscribe(h, <<<<"t", 0>>>>)

SpecTakeOver == InitTakeOver /\ [][NextTakeOver]_vars

\* handler h holds an established session and has not terminated
LiveSession(h) == status[h] = "running" /\ session[h].established

\* an ExitEvent(will = false) is queued for handler h
EvictionPending(h) ==
    \E i \in 1..Len(receiver[h]) : receiver[h][i] = ExitEvent(FALSE)

SubscriptionsOf(S, client_id) == {t \in Topics : S[t][client_id] # NoSender}

\* C10: on take-over the first handler returns Exit, the second session is
\* the live one, and the subscriptions registered under the client_id stay
\* in the subscription registry if and only if clean_session = false.
C10_TakeOverRetainsIffNotClean ==
    [][\A h \in Handlers :
          (/\ ret'[h].calls # ret[h].calls
           /\ ret'[h].event = ExitEvent(FALSE)
           /\ SubscriptionsOf(SUBSCRIPT, session[h].client_id) # {})
              => /\ ret'[h].value = ReturnExit
                 /\ live'[session[h].client_id] # h
                 /\ (SubscriptionsOf(SUBSCRIPT', session[h].client_id)
                        = SubscriptionsOf(SUBSCRIPT, session[h].client_id))
                     <=> ~CleanOf(session[h].client_id)]_vars

(***************************************************************************)
(* Claims about the end of a session (checked under Spec).                 *)
(***************************************************************************)
\* C11: DISCONNECT terminates the session: once a handler has processed an
\* InputEvent carrying DISCONNECT in an established session, the handler is
\* terminated (the call yielded Exit) and it processes no later event.
C11_DisconnectTerminates ==
    [][\A h \in Handlers :
          ProcessedDisconnect(h) =>
              /\ ret[h].value = ReturnExit
              /\ status[h] = "exited"
              /\ ret'[h].calls = ret[h].calls]_vars

(***************************************************************************)
(* SpecSubs: clients "a" and "b" connect, send SUBSCRIBE packets with one  *)
(* or two (topic filter, qos) pairs, a requested QoS of 128 standing for   *)
(* MqttQos::Failure, and send UNSUBSCRIBE for a topic of the registry or   *)
(* for topic "x", which nobody subscribes to.                              *)
(***************************************************************************)
\* number of events the transports may enqueue under SpecSubs
MaxInputsSubs == 4

\* the SUBSCRIBE payloads the clients send
SubscribeLists ==
    { <<<<"t", 1>>>>,
      <<<<"t", 2>>, <<"bye", 0>>>>,
      <<<<"bye", 128>>, <<"t", 1>>>> }

\* an UNSUBSCRIBE with the packet identifier given
ClientUnsubscribeWith(h, topic, message_id) ==
    /\ TransportOpen(h)
    /\ SendMessage(h, InputEvent([BasePacket EXCEPT !.ptype = "UNSUBSCRIBE",
                                     !.message_id = message_id, !.topic = topic]))
    /\ UNCHANGED <<published, released>>

InitSubs == InitWith(MaxInputsSubs)

NextSubs ==
    \/ Run
    \/ \E h \in Handlers : ~Connected(h) /\ ClientConnect(h, ClientOf(h), TRUE, 0, TRUE)
    \/ \E h \in Handlers, f \in SubscribeLists : Connected(h) /\ ClientSubscribe(h, f)
    \/ \E h \in Handlers, t \in {"t", "x"}, i \in {1, 2} :
          Connected(h) /\ ClientUnsubscribeWith(h, t, i)

SpecSubs == InitSubs /\ [][NextSubs]_vars

\* handler h has just processed a packet of the type given in an established
\* session
ProcessedPacket(h, type) ==
    /\ ret'[h].calls # ret[h].calls
    /\ ret'[h].event[1] = "InputEvent"
    /\ ret'[h].event[2].ptype = type
    /\ session[h].established

\* the return code the claim expects for a requested QoS
Granted(qos) == IF qos \in 0..2 THEN qos ELSE 128

\* the step of handler h has put exactly one event on its own channel, behind
\* the events that were queued, and that event is the OutputEvent of a packet
\* of the type given
EmittedOne(h, type) ==
    LET old == Tail(receiver[h])
        new == receiver'[h]
    IN /\ Len(new) = Len(old) + 1
       /\ SubSeq(new, 1, Len(old)) = old
       /\ new[Len(new)][1] = "OutputEvent"
       /\ new[Len(new)][2].ptype = type

C13_Unsubscribe ==
    [][\A h \in Handlers : ProcessedPacket(h, "UNSUBSCRIBE") =>
          LET m == ret'[h].event[2]
              c == session[h].client_id
          IN /\ ~SubscriptIsSubscript(SUBSCRIPT', m.topic, c)
             /\ \A t \in Topics, d \in AllIds :
                   (t # m.topic \/ d # c) => SUBSCRIPT'[t][d] = SUBSCRIPT[t][d]
             /\ (~SubscriptContain(SUBSCRIPT, m.topic)
                   \/ ~SubscriptIsSubscript(SUBSCRIPT, m.topic, c))
                  => SUBSCRIPT' = SUBSCRIPT
             /\ ret'[h].value # ReturnPanic
             /\ EmittedOne(h, "UNSUBACK")
             /\ receiver'[h][Len(receiver'[h])][2].message_id = m.message_id
      ]_vars

\* a client subscribed to "t" and "bye" has unsubscribed from "t" with packet
\* identifier 2: it is subscribed to "bye" only and the UNSUBACK is queued
C13_Witness ==
    \E h \in Handlers :
        /\ ret[h].established
        /\ ret[h].event[1] = "InputEvent"
        /\ ret[h].event[2].ptype = "UNSUBSCRIBE"
        /\ ret[h].event[2].topic = "t"
        /\ ret[h].subscript
        /\ SUBSCRIPT["t"][session[h].client_id] = NoSender
        /\ SUBSCRIPT["bye"][session[h].client_id] = h
        /\ CountAcks(receiver[h], "UNSUBACK", 2) = 1

(***************************************************************************)
(* SpecProto: the clients send CONNECT packets with protocol names "MQTT", *)
(* "MQIsdp" or "HTTP" and protocol levels 3, 4 or 5, and subscribe.        *)
(***************************************************************************)
\* number of events the transports may enqueue under SpecProto
MaxInputsProto == 3

ProtocolNames == {"MQTT", "MQIsdp", "HTTP"}

ProtocolLevels == {3, 4, 5}

\* a CONNECT that carries the protocol name and level given
ClientConnectProtocol(h, client_id, name, level) ==
    /\ TransportOpen(h)
    /\ SendMessage(h, InputEvent([ConnectPacket(client_id, TRUE, 0, TRUE)
                                     EXCEPT !.protocol_name = name,
                                            !.protocol_level = level]))
    /\ UNCHANGED <<published, released>>

InitProto == InitWith(MaxInputsProto)

NextProto ==
    \/ Run
    \/ \E h \in Handlers, name \in ProtocolNames, level \in ProtocolLevels :
          ~Connected(h) /\ ClientConnectProtocol(h, ClientOf(h), name, level)
    \/ \E h \in Handlers : Connected(h) /\ ClientSubscribe(h, <<<<"t", 0>>>>)

SpecProto == InitProto /\ [][NextProto]_vars

\* the last execute call of handler h processed a CONNECT whose protocol name
\* or protocol level is not acceptable
ProcessedBadConnect(h) ==
    /\ ret[h].calls > 0
    /\ ret[h].event[1] = "InputEvent"
    /\ ret[h].event[2].ptype = "CONNECT"
    /\ \/ ret[h].event[2].protocol_name \notin {"MQTT", "MQIsdp"}
       \/ ret[h].event[2].protocol_level \notin {3, 4}

\* C14: a CONNECT whose protocol name is neither "MQTT" nor "MQIsdp", or whose
\* protocol level is not 3 or 4, is rejected: processing it leaves the session
\* un-established and creates no inflight table for its client_id.
C14_RejectBadProtocol ==
    \A h \in Handlers :
        ProcessedBadConnect(h) => ~session[h].established /\ ~ret[h].inflight

(***************************************************************************)
(* SpecPanic: the clients send CONNECT with or without a will, a packet    *)
(* whose first byte names no packet type ("RESERVED", upper nibble 0), an  *)
(* AUTH packet and PINGREQ.                                                *)
(***************************************************************************)
\* number of events the transports may enqueue under SpecPanic
MaxInputsPanic == 3

InitPanic == InitWith(MaxInputsPanic)

NextPanic ==
    \/ Run
    \/ \E h \in Handlers, will_flag \in BOOLEAN :
          ~Connected(h) /\ ClientConnect(h, ClientOf(h), will_flag, 0, TRUE)
    \/ \E h \in Handlers, type \in {"RESERVED", "AUTH", "PINGREQ"} :
          ClientPacket(h, type, 0)

SpecPanic == InitPanic /\ [][NextPanic]_vars

\* C15: no panic propagates past the handler loop: every execute call
\* completes and returns None, Response or Exit, also for an InputEvent whose
\* first byte has an unknown packet type and for a CONNECT with will_flag = 0.
C15_NoPanic ==
    \A h \in Handlers :
        /\ status[h] # "panicked"
        /\ ret[h].value[1] \in {"None", "Response", "Exit"}

(***************************************************************************)
(* Claims about the QoS 2 exchange (checked under SpecQos2).               *)
(***************************************************************************)
\* handler h has just processed a PUBREL with the packet identifier given
ProcessedPubrel(h, message_id) ==
    /\ ret'[h].calls # ret[h].calls
    /\ ret'[h].event[1] = "InputEvent"
    /\ ret'[h].event[2].ptype = "PUBREL"
    /\ ret'[h].event[2].message_id = message_id

\* the step has put BroadcastEvent ev on the channel of handler g
Enqueued(g, ev) == CountIn(receiver'[g], ev) > CountIn(receiver[g], ev)

\* the BroadcastEvents of QoS 2 content queued for handler g after the step
Qos2Broadcasts(g) ==
    {receiver'[g][k] : k \in {i \in 1..Len(receiver'[g]) :
                                 /\ receiver'[g][i][1] = "BroadcastEvent"
                                 /\ receiver'[g][i][3].qos = 2}}

MaxInputsQos2Sub == 7

InitQos2Sub == InitWith(MaxInputsQos2Sub)

\* handler h has returned (written to its client) a packet of the type and
\* packet identifier given
Written(h, type, message_id) ==
    /\ ret[h].value[1] = "Response"
    /\ ret[h].value[2].ptype = type
    /\ ret[h].value[2].message_id = message_id

NextQos2Sub ==
    \/ Run
    \/ \E h \in Handlers : ~Connected(h) /\ ClientConnect(h, ClientOf(h), TRUE, 0, TRUE)
    \/ Connected(2) /\ ClientSubscribe(2, <<<<"t", 0>>>>)
    \/ Connected(1) /\ published[1] = <<>> /\ ClientPublish(1, "t", 2)
    \/ ClientPubrel(1, 1)
    \/ Written(2, "PUBLISH", 1) /\ ClientPacket(2, "PUBREC", 1)
    \/ Written(2, "PUBREL", 1) /\ ClientPacket(2, "PUBCOMP", 1)

SpecQos2Sub == InitQos2Sub /\ [][NextQos2Sub]_vars

C18_SelfEchoKeepsInflight ==
    \A h \in Handlers :
        (/\ ret[h].calls > 0
         /\ ret[h].event[1] = "BroadcastEvent"
         /\ \/ ret[h].event[2] = session[h].client_id
            \/ ret[h].event[3].qos # 2)
            => ~ret[h].inflight

(***************************************************************************)
(* SpecExit: clients "a" and "b" connect with a will on topic "bye",       *)
(* subscribe to "bye", send DISCONNECT (after which the session is ended   *)
(* with ExitEvent(false)), and their transports fail (ExitEvent(true)),    *)
(* also before a CONNECT was processed.                                    *)
(***************************************************************************)
\* number of events the transports may enqueue under SpecExit
MaxInputsExit == 4

InitExit == InitWith(MaxInputsExit)

NextExit ==
    \/ Run
    \/ \E h \in Handlers : ~Connected(h) /\ ClientConnect(h, ClientOf(h), TRUE, 0, TRUE)
    \/ \E h \in Handlers : Connected(h) /\ ClientSubscribe(h, <<<<"bye", 0>>>>)
    \/ \E h \in Handlers : Connected(h) /\ ClientDisconnect(h)
    \/ \E h \in Handlers : TransportClose(h)

SpecExit == InitExit /\ [][NextExit]_vars

\* handler h has just processed an ExitEvent
ProcessedExit(h) ==
    /\ ret'[h].calls # ret[h].calls
    /\ ret'[h].event[1] = "ExitEvent"

\* C19: the step that processes ExitEvent(will) broadcasts the session's will
\* to will_topic (one BroadcastEvent from the session's client_id on the
\* channel of every live subscriber of will_topic) if and only if will is true
\* and the session has will_flag set with a will message; in every case it
\* removes all subscriptions of the session's client_id and returns Exit.
C19_ExitEvent ==
    [][\A h \in Handlers : ProcessedExit(h) =>
          LET s == session[h]
              sends == ret'[h].event[2] /\ s.will_flag /\ s.will_message
              b == BroadcastEvent(s.client_id, GetWillMessage(s))
              old == [receiver EXCEPT ![h] = Tail(@)]
          IN /\ willCount'[h] = willCount[h] + (IF sends THEN 1 ELSE 0)
             /\ \A g \in Handlers :
                   CountIn(receiver'[g], b)
                     = CountIn(old[g], b)
                         + (IF sends /\ status[g] = "running"
                            THEN Fanout(s.will_topic, g) ELSE 0)
             /\ \A g \in Handlers : Len(receiver'[g]) = Len(old[g])
                         + (IF sends /\ status[g] = "running"
                            THEN Fanout(s.will_topic, g) ELSE 0)
             /\ \A t \in Topics : SUBSCRIPT'[t][s.client_id] = NoSender
             /\ ret'[h].value = ReturnExit
      ]_vars

\* ExitEvent(true) of a session with a will has put the will on the channel of
\* the other client
C19_Witness ==
    \E h \in Handlers, g \in Handlers :
        /\ h # g
        /\ ret[h].event = ExitEvent(TRUE)
        /\ session[h].will_flag
        /\ willCount[h] = 1
        /\ \E k \in 1..Len(receiver[g]) :
              receiver[g][k] = BroadcastEvent(session[h].client_id,
                                              GetWillMessage(session[h]))

\* an ExitEvent(false) of a session with a will has been processed
C19_WitnessNoWill ==
    \E h \in Handlers :
        /\ ret[h].event = ExitEvent(FALSE)
        /\ session[h].will_flag
        /\ status[h] = "exited"

(***************************************************************************)
(* Claim about undecodable packets (checked under SpecPanic).              *)
(***************************************************************************)
\* the last execute call of handler h processed an InputEvent whose bytes have
\* a known packet type that MqttMessageKind::v3 decodes to no request
ProcessedUndecodable(h) ==
    /\ ret[h].calls > 0
    /\ ret[h].event[1] = "InputEvent"
    /\ ~BaseMessageFrom(ret[h].event[2]).panic
    /\ ToV3Request(BaseMessageFrom(ret[h].event[2])) = NoRequest

\* C20: the execute call that processes an InputEvent whose bytes decode to
\* no v3 request (an AUTH packet) closes the connection: it returns Exit, not
\* a Response, and changes neither the subscription registry nor the inflight
\* store.
C20_UndecodableCloses ==
    \A h \in Handlers :
        ProcessedUndecodable(h) =>
            /\ ret[h].value = ReturnExit
            /\ status[h] = "exited"
            /\ ~ret[h].subscript
            /\ ~ret[h].inflight

(***************************************************************************)
(* SpecInflight: client "b" on handler 2 subscribes to "t"; client "a" on  *)
(* handler 1 publishes a QoS 2 message on "t" and client "b" publishes a   *)
(* QoS 2 message on "bye", which has no subscriber.  Both messages carry   *)
(* packet identifier 1, each in its own session and direction.             *)
(***************************************************************************)
\* number of events the transports may enqueue under SpecInflight
MaxInputsInflight == 7

InitInflight == InitWith(MaxInputsInflight)

NextInflight ==
    \/ Run
    \/ \E h \in Handlers : ~Connected(h) /\ ClientConnect(h, ClientOf(h), TRUE, 0, TRUE)
    \/ Connected(2) /\ ClientSubscribe(2, <<<<"t", 0>>>>)
    \/ Connected(1) /\ published[1] = <<>> /\ ClientPublish(1, "t", 2)
    \/ Connected(2) /\ published[2] = <<>> /\ ClientPublish(2, "bye", 2)
    \/ \E h \in Handlers : ClientPubrel(h, 1)

SpecInflight == InitInflight /\ [][NextInflight]_vars

\* the step is an execute call of the handler of client c that processes a
\* packet of the given type with the given packet identifier
HandshakeStep(c, type, message_id) ==
    \E h \in Handlers :
        /\ session[h].client_id = c
        /\ ret'[h].calls # ret[h].calls
        /\ ret'[h].event[1] = "InputEvent"
        /\ ret'[h].event[2].ptype = type
        /\ ret'[h].event[2].message_id = message_id

\* C21: an entry of a client's inflight table whose handshake is not finished
\* is never overwritten by a different message (another publisher or the
\* opposite direction) and is removed only by the packet that finishes its own
\* handshake: the client's PUBREL for a message the client sent, the client's
\* PUBCOMP for a message forwarded to the client.
C21_InflightEntryKept ==
    [][\A c \in ClientIds, m \in MsgIds :
          LET e == MESSAGE_CONTAINER[c].frames[m]
              e2 == MESSAGE_CONTAINER'[c].frames[m]
          IN e.present =>
                /\ e2.present => e2.from = e.from /\ e2.to = e.to
                /\ ~e2.present =>
                      \/ e.to = EmptyId /\ HandshakeStep(c, "PUBREL", m)
                      \/ e.to = c /\ HandshakeStep(c, "PUBCOMP", m)
      ]_vars

(***************************************************************************)
(* SpecConnack: each transport sends one CONNECT with client_id "a" or     *)
(* "b", with or without a will and with either clean_session flag; the     *)
(* clients publish at QoS 2, which leaves entries in their inflight tables *)
(* for a later CONNECT with the same client_id to find.                    *)
(***************************************************************************)
\* number of events the transports may enqueue under SpecConnack
MaxInputsConnack == 4

InitConnack == InitWith(MaxInputsConnack)

NextConnack ==
    \/ Run
    \/ \E h \in Handlers, c \in ClientIds, will_flag \in BOOLEAN, clean \in BOOLEAN :
          ~Connected(h) /\ ClientConnect(h, c, will_flag, 0, clean)
    \/ \E h \in Handlers : Connected(h) /\ ClientPublish(h, "t", 2)

SpecConnack == InitConnack /\ [][NextConnack]_vars

\* the step is the execute call of handler h that processes a CONNECT the
\* broker accepts: known protocol name and level, and a client_id unless
\* clean_session is set
ProcessedAcceptedConnect(h) ==
    /\ ret'[h].calls # ret[h].calls
    /\ ret'[h].event[1] = "InputEvent"
    /\ ret'[h].event[2].ptype = "CONNECT"
    /\ ValidProtocol(ret'[h].event[2])
    /\ ~(ret'[h].event[2].client_id = EmptyId /\ ~ret'[h].event[2].clean_session)

\* C22: the execute call that processes an accepted CONNECT leaves an
\* inflight table for the client_id and queues a CONNACK with return code 0
\* (ConnectionAccepted) whose session_present flag is true exactly when
\* clean_session is false and the client's inflight table held an entry.
C22_ConnackSessionPresent ==
    [][\A h \in Handlers : ProcessedAcceptedConnect(h) =>
          LET m == ret'[h].event[2]
              present == ~m.clean_session
                           /\ ~TableEmpty(MESSAGE_CONTAINER, m.client_id)
          IN /\ status'[h] = "running"
             /\ MESSAGE_CONTAINER'[m.client_id].exists
             /\ receiver'[h] # <<>>
             /\ receiver'[h][Len(receiver'[h])] = OutputEvent(ConnackNew(present, 0))
      ]_vars

\* the same for a CONNECT that carries a will
C22_ConnackSessionPresentWithWill ==
    [][\A h \in Handlers :
          (ProcessedAcceptedConnect(h) /\ ret'[h].event[2].will_flag) =>
          LET m == ret'[h].event[2]
              present == ~m.clean_session
                           /\ ~TableEmpty(MESSAGE_CONTAINER, m.client_id)
          IN /\ status'[h] = "running"
             /\ MESSAGE_CONTAINER'[m.client_id].exists
             /\ receiver'[h] # <<>>
             /\ receiver'[h][Len(receiver'[h])] = OutputEvent(ConnackNew(present, 0))
      ]_vars

(***************************************************************************)
(* Claim about the handler after Exit (checked under SpecExit).            *)
(***************************************************************************)
\* C23: once an execute call of a handler has returned Exit, the handler
\* processes no further event: the events still queued on its channel stay
\* there, it makes no further execute call (so it returns no further
\* Response), and it causes no further will broadcast.
C23_NoDrainAfterExit ==
    [][\A h \in Handlers : status[h] = "exited" =>
          /\ status'[h] = "exited"
          /\ ret'[h] = ret[h]
          /\ Len(receiver'[h]) >= Len(receiver[h])
          /\ SubSeq(receiver'[h], 1, Len(receiver[h])) = receiver[h]
          /\ delivered'[h] = delivered[h]
          /\ willCount'[h] = willCount[h]
          /\ session'[h] = session[h]
      ]_vars

\* a handler has returned Exit while an InputEvent sent after the ExitEvent is
\* still queued on its channel, and the other handler has run since
C23_Witness ==
    \E h \in Handlers, g \in Handlers :
        /\ h # g
        /\ status[h] = "exited"
        /\ ret[h].value = ReturnExit
        /\ receiver[h] # <<>>
        /\ receiver[h][1][1] = "InputEvent"
        /\ ret[g].calls > 0

\* C24: take-over is safe under interleaving: when the older handler of a
\* client_id processes its ExitEvent(will=false) after another handler has
\* connected with the same client_id, the step removes no subscription that
\* the newer session has registered.
C24_TakeOverKeepsNewSubscriptions ==
    [][\A h \in Handlers :
          (/\ ret'[h].calls # ret[h].calls
           /\ ret'[h].event = ExitEvent(FALSE))
              => \A g \in Handlers \ {h}, t \in Topics :
                    (/\ LiveSession(g)
                     /\ session[g].client_id = session[h].client_id
                     /\ live[session[h].client_id] = g
                     /\ SUBSCRIPT[t][session[h].client_id] = g)
                        => SUBSCRIPT'[t][session[h].client_id] = g]_vars

(***************************************************************************)
(* SpecBlock: both clients connect with a will on topic "bye"; client "a"  *)
(* on handler 1 subscribes to "bye", its own will topic; the clients send  *)
(* DISCONNECT and their transports fail.  Only handler 1 receives          *)
(* broadcasts, so a handler that stays blocked is blocked on the channel   *)
(* that handler 1 alone can drain.                                         *)
(***************************************************************************)
\* number of events the transports may enqueue under SpecBlock
MaxInputsBlock == 4

InitBlock == InitWith(MaxInputsBlock)

NextBlock ==
    \/ Run
    \/ \E h \in Handlers : ~Connected(h) /\ ClientConnect(h, ClientOf(h), TRUE, 0, TRUE)
    \/ Connected(1) /\ ClientSubscribe(1, <<<<"bye", 0>>>>)
    \/ \E h \in Handlers : Connected(h) /\ ClientDisconnect(h)
    \/ \E h \in Handlers : TransportClose(h)

SpecBlock == InitBlock /\ [][NextBlock]_vars

\* C25: the handlers never deadlock on their bounded channels: as long as an
\* event is queued for a handler that has not returned Exit, some handler can
\* complete an execute call (a send into a full channel is eventually
\* unblocked by the owner of that channel).
C25_NoDeadlock ==
    (\E h \in Handlers : Running(h) /\ receiver[h] # <<>>) => ENABLED Run

(***************************************************************************)
(* Claim about the return kind of an execute call (checked under           *)
(* SpecPanic).                                                             *)
(***************************************************************************)
\* what the claim says the execute call of handler h returns for event ev, and
\* that an OutputEvent changes no session, registry or inflight state
ReturnKindOf(h, ev, value) ==
    /\ ev[1] = "InputEvent" => value = ReturnNone
    /\ ev[1] = "OutputEvent" =>
          /\ value = ReturnResponse(ev[2])
          /\ session'[h] = session[h]
          /\ SUBSCRIPT' = SUBSCRIPT
          /\ MESSAGE_CONTAINER' = MESSAGE_CONTAINER
    /\ ev[1] = "BroadcastEvent" =>
          value = IF ev[2] # session[h].client_id
                  THEN ReturnResponse(PublishToVec(ev[3]))
                  ELSE ReturnNone
    /\ ev[1] = "ExitEvent" => value = ReturnExit

\* C26: the return kind of one execute call is determined by the kind of the
\* event consumed: InputEvent always yields None, OutputEvent(bytes) yields
\* Response with exactly those bytes and changes no session, registry or
\* inflight state, BroadcastEvent yields Response(encoded PUBLISH) exactly
\* when from_id differs from the handler's client_id and None otherwise, and
\* ExitEvent always yields Exit.
C26_ReturnKindByEvent ==
    [][\A h \in Handlers : ret'[h].calls # ret[h].calls =>
          ReturnKindOf(h, ret'[h].event, ret'[h].value)]_vars

\* the same for the execute calls that complete
C26_ReturnKindOfCompletedCall ==
    [][\A h \in Handlers :
          (ret'[h].calls # ret[h].calls /\ ret'[h].value # ReturnPanic) =>
          ReturnKindOf(h, ret'[h].event, ret'[h].value)]_vars

====
